---- MODULE Spec2Model ----
(***************************************************************************)
(* Model of tools/unicode_properties_parse/grapheme_break_property_data_gen *)
(* .py: one run of the generator.  Two files have been parsed into lists of *)
(* PropertyRange objects; the run compacts both lists, encodes the          *)
(* Grapheme_Break table and the (filtered) Extended_Pictographic table,     *)
(* prints the header, and the generated _Get_property_for_codepoint is then *)
(* queried.                                                                 *)
(*                                                                          *)
(* Property names are strings in the source and are only compared for      *)
(* equality and sorted; a property is modelled by its rank in the           *)
(* lexicographic order of the names (a positive integer).                   *)
(***************************************************************************)
EXTENDS Integers, Sequences, FiniteSets

VARIABLES pc, heap, orig, i, result, cpp_data, stdout, query

vars == <<pc, heap, orig, i, result, cpp_data, stdout, query>>

(* ------------------------------ bounds --------------------------------- *)
\* longest list of parsed ranges in the general input family
MaxLen == 3
\* largest codepoint used by the general input family
MaxCp == 2

(* ------------------------- program constants --------------------------- *)
\* assert size <= 0x0FFF
MaxRangeSize == 4095
\* prop_idx << 12
SizeBits == 12
\* _Data & 0x0FFF
SizeMask == 4095
\* _Data & 0xF000
PropMask == 61440
\* _No_value = 255
No_value == 255
\* "leading to a maximum of 16 property values"
MaxPropValues == 16
\* rank of the name "Extended_Pictographic" among the emoji-data properties
\* (rank 1 stands for "Emoji")
Extended_Pictographic == 2

Tables == {"gbp", "emoji"}

NoData == [none |-> TRUE]

(* --------------------------- PropertyRange ----------------------------- *)
PropertyRange(l, u, p) == [lower |-> l, upper |-> u, prop |-> p]

\* the objects a list of references points to
Deref(h, refs) == [k \in 1..Len(refs) |-> h[refs[k]]]

(* ----------------------- compact_property_ranges ----------------------- *)
\* the condition without the adjacency test
MergeCond_NoAdjacency(h, res, x) ==
    /\ Len(res) # 0
    /\ h[res[Len(res)]].prop = h[x].prop

\* the condition without the property test
MergeCond_AnyProperty(h, res, x) ==
    /\ Len(res) # 0
    /\ h[res[Len(res)]].upper + 1 = h[x].lower

\* the condition reading the last range's lower instead of its upper
MergeCond_WrongField(h, res, x) ==
    /\ Len(res) # 0
    /\ h[res[Len(res)]].prop = h[x].prop
    /\ h[res[Len(res)]].lower + 1 = h[x].lower

\* the condition of the if statement: h is the file's objects, res the
\* result list (references), x the incoming object
MergeCond(h, res, x) ==
    /\ Len(res) # 0
    /\ h[res[Len(res)]].prop = h[x].prop
    /\ h[res[Len(res)]].upper + 1 = h[x].lower

\* one iteration of "for x in input"
CompactIter(h, res, x) ==
    IF MergeCond(h, res, x)
    THEN [heap   |-> [h EXCEPT ![res[Len(res)]].upper = h[x].upper],
          result |-> res]
    ELSE [heap |-> h, result |-> Append(res, x)]

\* the whole function on the list `input` of references into h
RECURSIVE CompactLoop(_, _, _)
CompactLoop(h, res, input) ==
    IF input = <<>> THEN [heap |-> h, result |-> res]
    ELSE LET s == CompactIter(h, res, Head(input))
         IN  CompactLoop(s.heap, s.result, Tail(input))

compact_property_ranges(h, input) == CompactLoop(h, <<>>, input)

(* ------------------------------ integers ------------------------------- *)
RECURSIVE Pow2(_)
Pow2(n) == IF n = 0 THEN 1 ELSE 2 * Pow2(n - 1)

RECURSIVE BitOr(_, _)
BitOr(a, b) ==
    IF a = 0 THEN b
    ELSE IF b = 0 THEN a
    ELSE (IF a % 2 = 1 \/ b % 2 = 1 THEN 1 ELSE 0) + 2 * BitOr(a \div 2, b \div 2)

RECURSIVE BitAnd(_, _)
BitAnd(a, b) ==
    IF a = 0 \/ b = 0 THEN 0
    ELSE (IF a % 2 = 1 /\ b % 2 = 1 THEN 1 ELSE 0) + 2 * BitAnd(a \div 2, b \div 2)

ShiftLeft(a, n) == a * Pow2(n)
ShiftRight(a, n) == a \div Pow2(n)

(* ---------------------- property_ranges_to_table ----------------------- *)
\* the sort with the comparison reversed
RECURSIVE InsertByLower_Descending(_, _)
InsertByLower_Descending(s, x) ==
    IF s = <<>> THEN <<x>>
    ELSE IF Head(s).lower >= x.lower
         THEN <<Head(s)>> \o InsertByLower_Descending(Tail(s), x)
    ELSE <<x>> \o s

\* sorted(ranges, key=lambda x: x.lower): a stable sort
RECURSIVE InsertByLower(_, _)
InsertByLower(s, x) ==
    IF s = <<>> THEN <<x>>
    ELSE IF Head(s).lower <= x.lower THEN <<Head(s)>> \o InsertByLower(Tail(s), x)
    ELSE <<x>> \o s

RECURSIVE SortedByLower(_)
SortedByLower(s) ==
    IF s = <<>> THEN <<>>
    ELSE InsertByLower(SortedByLower(SubSeq(s, 1, Len(s) - 1)), s[Len(s)])

\* props.index(p), zero based
IndexOf(props, p) ==
    (CHOOSE k \in 1..Len(props) :
        props[k] = p /\ \A j \in 1..(k - 1) : props[j] # p) - 1

\* the assertion off by one
SizeAccepted_OffByOne(size) == size <= MaxRangeSize + 1

\* assert size <= 0x0FFF
SizeAccepted(size) == size <= MaxRangeSize

\* size | (prop_idx << 12)
Pack(size, prop_idx) == BitOr(size, ShiftLeft(prop_idx, SizeBits))

PropertyTable(lb, pr) == [lower_bounds |-> lb, props_and_range |-> pr]

\* the body of the for loop, over the sorted ranges rs; ok = FALSE is the
\* AssertionError leaving the function
RECURSIVE TableLoop(_, _, _)
TableLoop(rs, props, tbl) ==
    IF rs = <<>> THEN [ok |-> TRUE, table |-> tbl]
    ELSE LET range == Head(rs)
             lbs   == Append(tbl.lower_bounds, range.lower)
             size  == (range.upper - range.lower) + 1
         IN  IF ~SizeAccepted(size)
             THEN [ok |-> FALSE, table |-> NoData]
             ELSE TableLoop(Tail(rs), props,
                      PropertyTable(lbs,
                          Append(tbl.props_and_range,
                                 Pack(size, IndexOf(props, range.prop)))))

property_ranges_to_table(ranges, props) ==
    TableLoop(SortedByLower(ranges), props, PropertyTable(<<>>, <<>>))

(* --------------------------- generate_cpp_data ------------------------- *)
\* sorted({x.prop for x in ranges})
RECURSIVE SortedSeq(_)
SortedSeq(S) ==
    IF S = {} THEN <<>>
    ELSE LET m == CHOOSE x \in S : \A y \in S : x <= y
         IN  <<m>> \o SortedSeq(S \ {m})

PropValues(ranges) == SortedSeq({ranges[k].prop : k \in 1..Len(ranges)})

\* "0x" + format(x, 'x'): the hexadecimal digits of x, most significant first
RECURSIVE FormatHex(_)
FormatHex(x) ==
    IF x < 16 THEN <<x>> ELSE Append(FormatHex(x \div 16), x % 16)

\* the text generate_cpp_data returns: the enumerators of the enum and the
\* size and the two array literals of the data array; ok = FALSE when
\* property_ranges_to_table raised
generate_cpp_data(ranges) ==
    LET prop_values == PropValues(ranges)
        t           == property_ranges_to_table(ranges, prop_values)
    IN  IF ~t.ok THEN [ok |-> FALSE, text |-> NoData]
        ELSE [ok   |-> TRUE,
              text |-> [enumerators    |-> prop_values,
                        size           |-> Len(t.table.lower_bounds),
                        lower_bounds   |-> [k \in 1..Len(t.table.lower_bounds) |->
                                               FormatHex(t.table.lower_bounds[k])],
                        props_and_size |-> [k \in 1..Len(t.table.props_and_range) |->
                                               FormatHex(t.table.props_and_range[k])]]]

(* ------------- _Unicode_property_data (the generated C++) -------------- *)
\* the compiler reading a hexadecimal literal
RECURSIVE ParseHex(_)
ParseHex(ds) ==
    IF ds = <<>> THEN 0
    ELSE 16 * ParseHex(SubSeq(ds, 1, Len(ds) - 1)) + ds[Len(ds)]

\* uint32_t _Lower_bounds[_NumRanges]; uint16_t _Props_and_size[_NumRanges].
\* A lower bound is a codepoint of at most five hexadecimal digits, so the
\* 32 bits of _Lower_bounds hold it unchanged; the 16 bits of _Props_and_size
\* keep the low 16 bits of the literal.
Unicode_property_data(text) ==
    [Lower_bounds   |-> [k \in 1..Len(text.lower_bounds) |->
                            ParseHex(text.lower_bounds[k])],
     Props_and_size |-> [k \in 1..Len(text.props_and_size) |->
                            ParseHex(text.props_and_size[k]) % Pow2(16)]]

\* _STD upper_bound(first, last, val): the number of elements before the
\* first one greater than val, by halving (first is a zero-based offset)
RECURSIVE upper_bound(_, _, _, _)
upper_bound(a, first, count, val) ==
    IF count <= 0 THEN first
    ELSE LET count2 == count \div 2
             mid    == first + count2
         IN  IF ~(val < a[mid + 1])
             THEN upper_bound(a, mid + 1, count - (count2 + 1), val)
             ELSE upper_bound(a, first, count2, val)

Get_property_for_codepoint(data, Code_point) ==
    LET Upper_idx == upper_bound(data.Lower_bounds, 0, Len(data.Lower_bounds), Code_point)
    IN  IF Upper_idx = 0 THEN No_value
        ELSE LET Lower_bound == data.Lower_bounds[Upper_idx]
                 Data        == data.Props_and_size[Upper_idx]
                 Size        == BitAnd(Data, SizeMask)
                 Prop        == ShiftRight(BitAnd(Data, PropMask), SizeBits)
             IN  IF Code_point < Lower_bound + Size
                 THEN Prop
                 ELSE No_value

(* ------------------------- the parsed input files ---------------------- *)
\* every range of one or two codepoints within 0..MaxCp, with one of two
\* properties
GeneralRanges ==
    {r \in [lower : 0..MaxCp, upper : 0..MaxCp, prop : {1, 2}] :
        r.lower <= r.upper /\ r.upper <= r.lower + 1}

\* every list of at most MaxLen such ranges, in any order, overlapping or not
GeneralInputs == UNION {[1..n -> GeneralRanges] : n \in 0..MaxLen}

\* a range inside another one
OverlapInputs ==
    { <<PropertyRange(10, 20, 1), PropertyRange(12, 14, 2)>>,
      <<PropertyRange(10, 20, 1), PropertyRange(15, 25, 1)>> }

\* k single codepoints with k different properties
DistinctProps(k) == [j \in 1..k |-> PropertyRange(j, j, j)]

\* ascending, disjoint lists at the two capacity limits of the format, and
\* the worked examples of the merge rule
SpecialInputs ==
    { DistinctProps(MaxPropValues),
      DistinctProps(MaxPropValues + 1),
      <<PropertyRange(0, MaxRangeSize - 1, 1)>>,
      <<PropertyRange(0, MaxRangeSize, 1)>>,
      <<PropertyRange(0, MaxRangeSize - 1, 1), PropertyRange(MaxRangeSize, MaxRangeSize, 1)>>,
      <<PropertyRange(0, MaxRangeSize - 1, 1), PropertyRange(MaxRangeSize, MaxRangeSize, 2)>>,
      <<PropertyRange(10, 20, 1), PropertyRange(21, 30, 1)>>,
      <<PropertyRange(10, 20, 1), PropertyRange(22, 30, 1)>>,
      <<PropertyRange(10, 20, 1), PropertyRange(21, 30, 2)>>,
      <<PropertyRange(65, 90, 1), PropertyRange(91, 122, 2)>> }

EmojiExample ==
    <<PropertyRange(0, 0, 1),
      PropertyRange(1, 1, Extended_Pictographic),
      PropertyRange(2, 2, Extended_Pictographic)>>

EmojiInputs ==
    { <<>>,
      EmojiExample,
      <<PropertyRange(1, 1, Extended_Pictographic)>>,
      <<PropertyRange(0, MaxRangeSize, 1)>>,
      <<PropertyRange(0, MaxRangeSize, Extended_Pictographic)>> }

\* the pairs (GraphemeBreakProperty.txt, emoji-data.txt) of parsed files
CapacityPairs == SpecialInputs \X EmojiInputs

InputPairs ==
    ((GeneralInputs \cup OverlapInputs) \X {<<PropertyRange(1, 1, Extended_Pictographic)>>})
        \cup CapacityPairs

(* ------------------------------ the run -------------------------------- *)
\* the state at the first call of compact_property_ranges: both files parsed
Start(pairs) ==
    /\ \E in \in pairs :
          /\ heap = [t \in Tables |-> IF t = "gbp" THEN in[1] ELSE in[2]]
          /\ orig = [t \in Tables |-> IF t = "gbp" THEN in[1] ELSE in[2]]
    /\ pc = "compact_gbp"
    /\ i = 1
    /\ result = [t \in Tables |-> <<>>]
    /\ cpp_data = [t \in Tables |-> NoData]
    /\ stdout = NoData
    /\ query = NoData

Init == Start(InputPairs)

InitCapacity == Start(CapacityPairs)

Compacting(t) == pc = (IF t = "gbp" THEN "compact_gbp" ELSE "compact_emoji")

\* compact_property_ranges: one iteration of the loop over the file's list
CompactStep(t) ==
    /\ Compacting(t)
    /\ i <= Len(heap[t])
    /\ LET s == CompactIter(heap[t], result[t], i)
       IN  /\ heap' = [heap EXCEPT ![t] = s.heap]
           /\ result' = [result EXCEPT ![t] = s.result]
    /\ i' = i + 1
    /\ UNCHANGED <<pc, orig, cpp_data, stdout, query>>

\* compact_property_ranges returns; gbp_ranges / emoji_ranges is assigned
CompactReturn(t) ==
    /\ Compacting(t)
    /\ i > Len(heap[t])
    /\ pc' = (IF t = "gbp" THEN "compact_emoji" ELSE "generate_gbp")
    /\ i' = 1
    /\ UNCHANGED <<heap, orig, result, cpp_data, stdout, query>>

\* the list handed to generate_cpp_data for table t
\* ([x for x in emoji_ranges if x.prop == "Extended_Pictographic"])
RECURSIVE SelectProp(_, _)
SelectProp(rs, p) ==
    IF rs = <<>> THEN <<>>
    ELSE IF Head(rs).prop = p THEN <<Head(rs)>> \o SelectProp(Tail(rs), p)
    ELSE SelectProp(Tail(rs), p)

TableRanges(t) ==
    IF t = "gbp" THEN Deref(heap[t], result[t])
    ELSE SelectProp(Deref(heap[t], result[t]), Extended_Pictographic)

\* generate_cpp_data printing its text instead of only returning it
GenerateCppData_PrintsEach(t) ==
    /\ pc = (IF t = "gbp" THEN "generate_gbp" ELSE "generate_emoji")
    /\ LET g == generate_cpp_data(TableRanges(t))
       IN  IF g.ok
           THEN /\ cpp_data' = [cpp_data EXCEPT ![t] = g.text]
                /\ stdout' = [cpp_data EXCEPT ![t] = g.text]
                /\ pc' = (IF t = "gbp" THEN "generate_emoji" ELSE "print")
           ELSE /\ cpp_data' = cpp_data
                /\ stdout' = stdout
                /\ pc' = "failed"
    /\ UNCHANGED <<heap, orig, i, result, query>>

\* gpb_cpp_data = generate_cpp_data(...) / emoji_cpp_data = generate_cpp_data(...)
GenerateCppData(t) ==
    /\ pc = (IF t = "gbp" THEN "generate_gbp" ELSE "generate_emoji")
    /\ LET g == generate_cpp_data(TableRanges(t))
       IN  IF g.ok
           THEN /\ cpp_data' = [cpp_data EXCEPT ![t] = g.text]
                /\ pc' = (IF t = "gbp" THEN "generate_emoji" ELSE "print")
           ELSE /\ cpp_data' = cpp_data
                /\ pc' = "failed"
    /\ UNCHANGED <<heap, orig, i, result, stdout, query>>

\* print(MSVC_FORMAT_UCD_TABLES_HPP_TEMPLATE...format(content=...))
PrintHeader ==
    /\ pc = "print"
    /\ stdout' = cpp_data
    /\ pc' = "done"
    /\ UNCHANGED <<heap, orig, i, result, cpp_data, query>>

\* the codepoints queried: 0 and those at and next to the bounds of the
\* parsed ranges.  The answer of a table, and the property the parsed list
\* assigns, change only at a lower bound or right after an upper bound, so
\* every other codepoint behaves like one of these.
Probes(t) ==
    {0} \cup UNION {{orig[t][k].lower, orig[t][k].upper, orig[t][k].upper + 1}
                       : k \in 1..Len(orig[t])}
        \cup {orig[t][k].lower - 1 : k \in {j \in 1..Len(orig[t]) : orig[t][j].lower > 0}}

\* a consumer of the printed header calls _Get_property_for_codepoint; a
\* table with no range (an array of length zero) cannot be instantiated.
\* The function is const and noexcept and keeps no state, so one call per
\* run is explored.
Lookup(t, c) ==
    /\ pc = "done"
    /\ query = NoData
    /\ stdout[t].size > 0
    /\ query' = [table |-> t, Code_point |-> c,
                 value |-> Get_property_for_codepoint(Unicode_property_data(stdout[t]), c)]
    /\ UNCHANGED <<pc, heap, orig, i, result, cpp_data, stdout>>

\* a call of _Get_property_for_codepoint on either table
Query == \E t \in Tables : \E c \in Probes(t) : Lookup(t, c)

Next ==
    \/ \E t \in Tables : CompactStep(t)
    \/ \E t \in Tables : CompactReturn(t)
    \/ \E t \in Tables : GenerateCppData(t)
    \/ PrintHeader
    \/ Query

Spec == Init /\ [][Next]_vars

\* the same run, on the input files at the capacity limits only
SpecCapacity == InitCapacity /\ [][Next]_vars

(* ======================= properties of the run ========================= *)
\* compact_property_ranges has returned for file t
Compacted(t) ==
    IF t = "gbp" THEN pc # "compact_gbp"
    ELSE pc \notin {"compact_gbp", "compact_emoji"}

\* the ranges of the list compact_property_ranges returned for file t
Output(t) == Deref(heap[t], result[t])

Covers(r, c) == r.lower <= c /\ c <= r.upper

PropsOf(rs) == {rs[k].prop : k \in 1..Len(rs)}

\* ascending by lower, ties allowed
Ascending(rs) == \A j, k \in 1..Len(rs) : j < k => rs[j].lower <= rs[k].lower

\* ascending by lower, no two ranges with the same lower
StrictlyAscending(rs) == \A j, k \in 1..Len(rs) : j < k => rs[j].lower < rs[k].lower

\* every range has lower <= upper and starts after the end of the one before
AscendingDisjoint(rs) ==
    /\ \A k \in 1..Len(rs) : rs[k].lower <= rs[k].upper
    /\ \A k \in 1..(Len(rs) - 1) : rs[k].upper < rs[k + 1].lower

\* some merge happened while file t was compacted
Merged(t) == Compacted(t) /\ Len(result[t]) < Len(orig[t])

(* ------------------------------- C2 ------------------------------------ *)
\* exactly one output range covers c with property p iff some parsed range
\* does; the output is sorted ascending by lower and pairwise disjoint
CompactionCorrect(t) ==
    LET out == Output(t)
        in  == orig[t]
    IN  /\ \A p \in PropsOf(in) \cup PropsOf(out) : \A c \in Probes(t) :
              (Cardinality({k \in 1..Len(out) : out[k].prop = p /\ Covers(out[k], c)}) = 1)
                  <=> (\E k \in 1..Len(in) : in[k].prop = p /\ Covers(in[k], c))
        /\ \A j, k \in 1..Len(out) : j < k =>
              /\ out[j].lower <= out[k].lower
              /\ (out[j].upper < out[k].lower \/ out[k].upper < out[j].lower)

\* C2 as stated: for EVERY input sequence given to compact_property_ranges,
\* every property p and every codepoint c, exactly one output range covers c
\* with p iff some input range covers c with p, and the output ranges are
\* pairwise disjoint and sorted ascending by lower.
C2_EveryInput == \A t \in Tables : Compacted(t) => CompactionCorrect(t)

\* C2 amended: for every input sequence that is ascending and pairwise
\* disjoint (each range has lower <= upper and starts after the upper of the
\* range before it), exactly one output range covers c with property p iff
\* some input range covers c with p, and the output ranges are pairwise
\* disjoint and sorted ascending by lower.
C2_CompactionCorrectness ==
    \A t \in Tables :
        (Compacted(t) /\ AscendingDisjoint(orig[t])) => CompactionCorrect(t)

\* an ascending disjoint list of three ranges was compacted with a merge
C2_Witness ==
    /\ Merged("gbp")
    /\ AscendingDisjoint(orig["gbp"])
    /\ Len(orig["gbp"]) = 3
    /\ Len(result["gbp"]) = 2

(* ------------------------------- C3 ------------------------------------ *)
\* one iteration of the loop over file t: the incoming range x = input[i] is
\* merged into the last output range exactly when the output is non-empty,
\* that range has x's property and its upper + 1 is x.lower; otherwise x is
\* appended
StepFollowsMergeRule(t) ==
    (Compacting(t) /\ i' = i + 1) =>
        LET res == result[t]
            n   == Len(res)
            x   == heap[t][i]
        IN  IF /\ n # 0
               /\ heap[t][res[n]].prop = x.prop
               /\ heap[t][res[n]].upper + 1 = x.lower
            THEN /\ result'[t] = res
                 /\ heap'[t][res[n]] = [heap[t][res[n]] EXCEPT !.upper = x.upper]
            ELSE /\ result'[t] = Append(res, i)
                 /\ heap'[t][i] = x

\* the three worked examples
MergeExamples ==
    Compacted("gbp") =>
        /\ orig["gbp"] = <<PropertyRange(10, 20, 1), PropertyRange(21, 30, 1)>>
              => Output("gbp") = <<PropertyRange(10, 30, 1)>>
        /\ orig["gbp"] = <<PropertyRange(10, 20, 1), PropertyRange(22, 30, 1)>>
              => Output("gbp") = orig["gbp"]
        /\ orig["gbp"] = <<PropertyRange(10, 20, 1), PropertyRange(21, 30, 2)>>
              => Output("gbp") = orig["gbp"]

\* C3: while compact_property_ranges processes its input left to right, an
\* incoming range x is merged into the last output range (its upper becomes
\* x.upper, the output length is unchanged) exactly when the output is
\* non-empty, the last output range has x's property and its upper + 1 equals
\* x.lower; in every other case x is appended as a new last entry.  So
\* [10,20]A,[21,30]A gives [10,30]A, while [10,20]A,[22,30]A and
\* [10,20]A,[21,30]B each stay two ranges.
C3_MergeRule ==
    /\ [][\A t \in Tables : StepFollowsMergeRule(t)]_vars
    /\ []MergeExamples

\* [10,20]A,[21,30]A has been compacted to one range
C3_Witness ==
    /\ Compacted("gbp")
    /\ orig["gbp"] = <<PropertyRange(10, 20, 1), PropertyRange(21, 30, 1)>>
    /\ Len(result["gbp"]) = 1

(* ------------------------------- C4 ------------------------------------ *)
NoMergeablePair(out) ==
    \A k \in 1..(Len(out) - 1) :
        ~(out[k].prop = out[k + 1].prop /\ out[k].upper + 1 = out[k + 1].lower)

\* C4: for every input sequence, compacting the output of
\* compact_property_ranges again gives the same sequence of (lower, upper,
\* property) triples; equivalently no two consecutive output ranges have the
\* same property with the first one's upper + 1 equal to the second's lower.
C4_Idempotence ==
    \A t \in Tables :
        Compacted(t) =>
            LET again == compact_property_ranges(heap[t], result[t])
            IN  /\ Deref(again.heap, again.result) = Output(t)
                /\ NoMergeablePair(Output(t))

\* a list was compacted with a merge into two ranges of the same property
C4_Witness ==
    /\ Merged("gbp")
    /\ Len(result["gbp"]) = 2
    /\ Output("gbp")[1].prop = Output("gbp")[2].prop

(* ------------------------------- C9 ------------------------------------ *)
\* C9: after compact_property_ranges(input) returns, every range of the input
\* sequence still has the lower, upper and property it had before the call,
\* and the input sequence has the same length and order.
C9_InputUnchanged == \A t \in Tables : Compacted(t) => heap[t] = orig[t]

(* ====================== properties of the encoder ====================== *)
\* generate_cpp_data returned its text for table t
Encoded(t) == cpp_data[t] # NoData

\* generate_cpp_data raised for table t (the Grapheme_Break table is encoded
\* first, so a failure with its text present is the other table's)
EncodingFailed(t) ==
    /\ pc = "failed"
    /\ IF t = "gbp" THEN ~Encoded("gbp") ELSE Encoded("gbp")

Size(r) == (r.upper - r.lower) + 1

\* the entries of the two array literals in the text of table t, as numbers
EmittedLowerBounds(t) ==
    [k \in 1..Len(cpp_data[t].lower_bounds) |-> ParseHex(cpp_data[t].lower_bounds[k])]

EmittedPacked(t) ==
    [k \in 1..Len(cpp_data[t].props_and_size) |-> ParseHex(cpp_data[t].props_and_size[k])]

(* ------------------------------- C5 ------------------------------------ *)
\* C5: when the ranges given to the encoder carry more than 16 distinct
\* property values, encoding fails and no table is produced; a property id of
\* 16 or more is never packed into an emitted entry.
C5_TooManyValuesRejected ==
    \A t \in Tables :
        Encoded(t) =>
            /\ Cardinality(PropsOf(TableRanges(t))) <= 16
            /\ \A k \in 1..Len(EmittedPacked(t)) : EmittedPacked(t)[k] \div 4096 < 16

(* ------------------------------- C6 ------------------------------------ *)
\* C6: when any range given to property_ranges_to_table has size =
\* upper - lower + 1 greater than 0x0FFF (4095), encoding fails instead of
\* returning a table; a range of size 4096 is rejected and a range of size
\* 4095 is accepted (a table whose ranges all have size <= 4095 does not fail).
C6_TooWideRejected ==
    \A t \in Tables :
        LET rs      == TableRanges(t)
            tooWide == \E k \in 1..Len(rs) : Size(rs[k]) > 4095
        IN  /\ Encoded(t) => ~tooWide
            /\ EncodingFailed(t) => tooWide

\* in one run a range of size 4095 was encoded and one of size 4096 rejected
C6_Witness ==
    /\ Encoded("gbp")
    /\ \E k \in 1..Len(TableRanges("gbp")) : Size(TableRanges("gbp")[k]) = 4095
    /\ EncodingFailed("emoji")
    /\ \E k \in 1..Len(TableRanges("emoji")) : Size(TableRanges("emoji")[k]) = 4096

(* ------------------------------- C7 ------------------------------------ *)
\* the two arrays of the Grapheme_Break table have the length R of the list
\* of compacted ranges, and the lower bounds increase strictly
TableShape ==
    LET lb == EmittedLowerBounds("gbp")
    IN  /\ Len(lb) = Len(EmittedPacked("gbp"))
        /\ Len(lb) = Len(result["gbp"])
        /\ cpp_data["gbp"].size = Len(result["gbp"])
        /\ \A k \in 1..(Len(lb) - 1) : lb[k] < lb[k + 1]

\* C7 as stated: for every table returned for the compacted form of an input
\* ascending by lower, lower_bounds and props_and_range have the same length
\* R, R is the number of compacted ranges, and lower_bounds is strictly
\* increasing.
C7_AscendingInput ==
    (Encoded("gbp") /\ Ascending(orig["gbp"])) => TableShape

\* C7 amended: the same, for an input strictly ascending by lower (no two
\* ranges of the input share a lower bound).
C7_TableShape ==
    (Encoded("gbp") /\ StrictlyAscending(orig["gbp"])) => TableShape

\* a table of two ranges was returned for a strictly ascending list of three
C7_Witness ==
    /\ Encoded("gbp")
    /\ StrictlyAscending(orig["gbp"])
    /\ Len(orig["gbp"]) = 3
    /\ cpp_data["gbp"].size = 2

(* ------------------------------- C8 ------------------------------------ *)
\* C8: for every range in a table the encoder returns, the entry at the
\* range's position in lower_bounds is the range's lower, and the matching
\* props_and_range entry is below 2^16, its bits 0-11 are size =
\* upper - lower + 1 and its bits 12-15 are the index of the range's property
\* in the ascending list of the distinct properties, so that the consumer's
\* mask-and-shift decode recovers (size, valueId).
C8_PackedLayout ==
    \A t \in Tables :
        Encoded(t) =>
            LET rs    == SortedByLower(TableRanges(t))
                props == PropValues(TableRanges(t))
                data  == Unicode_property_data(cpp_data[t])
            IN  \A k \in 1..Len(rs) :
                    /\ EmittedLowerBounds(t)[k] = rs[k].lower
                    /\ EmittedPacked(t)[k] < 65536
                    /\ EmittedPacked(t)[k] % 4096 = Size(rs[k])
                    /\ EmittedPacked(t)[k] \div 4096 = IndexOf(props, rs[k].prop)
                    /\ BitAnd(data.Props_and_size[k], SizeMask) = Size(rs[k])
                    /\ ShiftRight(BitAnd(data.Props_and_size[k], PropMask), SizeBits)
                          = IndexOf(props, rs[k].prop)

(* ------------------------------- C1 ------------------------------------ *)
\* C1: for every list of ranges the encoder accepts and every codepoint c,
\* the lookup of c in the table built from the compacted list returns (the id,
\* in the ascending list of the distinct properties, of) the property the
\* parsed list assigns to c, and the no-value sentinel 255 when no parsed
\* range covers c.
C1_RoundTrip ==
    (pc = "done" /\ query # NoData /\ query.table = "gbp") =>
        LET in      == orig["gbp"]
            c       == query.Code_point
            props   == SortedSeq(PropsOf(in))
            covering == {k \in 1..Len(in) : Covers(in[k], c)}
        IN  IF covering = {} THEN query.value = 255
            ELSE \E k \in covering : query.value = IndexOf(props, in[k].prop)

(* ------------------------------- C10 ----------------------------------- *)
\* C10: if encoding of either table fails, nothing has been emitted at that
\* point: no text for the failing table, and no text for a table that encoded
\* earlier in the run.  Output is emitted only after both tables encoded.
C10_NoPartialOutput ==
    /\ pc = "failed" => stdout = NoData
    /\ \A t \in Tables : EncodingFailed(t) => ~Encoded(t)
    /\ stdout # NoData => \A t \in Tables : Encoded(t) /\ stdout[t] = cpp_data[t]

\* the second table failed after the first one had encoded
C10_Witness ==
    /\ EncodingFailed("emoji")
    /\ Encoded("gbp")
    /\ Len(result["gbp"]) > 0

====
